---------------------------- MODULE Spec2Model ----------------------------
(***************************************************************************)
(* A model of go-mvcc (src/main.go): a multi-version key-value store, its  *)
(* transaction table and the command handler Connection.execCommand.       *)
(*                                                                         *)
(* Every command runs to completion before the next one starts (the        *)
(* program is single-threaded), so each command is one atomic action.      *)
(* A failed assert panics and ends the process: the variable `panicked'    *)
(* records it and disables every action.  Spec is the program driven by    *)
(* callers that keep the session protocol; SpecMisuse adds the commands    *)
(* that break it and panic.                                                *)
(***************************************************************************)
EXTENDS Integers, Sequences, FiniteSets, TLC

\* ------------------------------------------------------------------ bounds
\* The number of begin commands a run may issue.
MaxTx == 3
\* The number of versions a key's slice may hold.
MaxVersions == 3

\* The connections opened on the database (newConnection).
Conns == {"c1", "c2"}
Keys == {"x"}

\* ------------------------------------------------------- program constants
\* type TransactionState (iota)
InProgressTransaction == 0
AbortedTransaction == 1
CommittedTransaction == 2

\* type IsolationLevel (iota), ordered in increasing strictness
ReadUncommittedIsolation == 0
ReadCommittedIsolation == 1
RepeatableReadIsolation == 2
SnapshotIsolation == 3
SerializableIsolation == 4

IsolationLevels == ReadUncommittedIsolation .. SerializableIsolation

\* c.tx == nil
NoTx == [id |-> 0]
\* the empty string a command returns beside an error or for delete/commit
NoVal == ""

\* ------------------------------------------------------------------- state
VARIABLES
    defaultIsolation,   \* Database.defaultIsolation
    store,              \* Database.store: key -> sequence of Value
    transactions,       \* Database.transactions: id -> Transaction
    nextTransactionID,  \* Database.nextTransactionID
    tx,                 \* Connection.tx of every connection (its own copy)
    panicked,           \* an assert failed: the process is gone
    res,                \* the last command: who ran it, and what it returned
    obs                 \* an observer: per connection and key, the slice's
                        \* length at the first get of the key by the
                        \* connection's Serializable transaction, if any

vars == <<defaultIsolation, store, transactions, nextTransactionID, tx,
          panicked, res, obs>>

db == <<defaultIsolation, store, transactions, nextTransactionID>>

\* ------------------------------------------------------------- newDatabase
newDatabaseFromZero ==
    [ defaultIsolation  |-> ReadCommittedIsolation,
      store             |-> [k \in Keys |-> << >>],
      transactions      |-> [i \in {} |-> NoTx],
      nextTransactionID |-> 0 ]

newDatabase ==
    [ defaultIsolation  |-> ReadCommittedIsolation,
      store             |-> [k \in Keys |-> << >>],
      transactions      |-> [i \in {} |-> NoTx],
      nextTransactionID |-> 1 ]

\* ---------------------------------------------------- Database.inProgress
inProgressIncludesCompleted(table) == DOMAIN table

inProgress(table) ==
    {id \in DOMAIN table : table[id].state = InProgressTransaction}

\* ------------------------------------------------ Database.newTransaction
\* The new transaction, and the table and counter the call leaves behind.
newTransactionNoIncrement(nextID, isolation, table) ==
    LET t == [ id         |-> nextID,
               isolation  |-> isolation,
               state      |-> InProgressTransaction,
               inProgress |-> inProgress(table),
               writeset   |-> {},
               readset    |-> {} ]
    IN  [ t                 |-> t,
          nextTransactionID |-> nextID,
          transactions      |-> [i \in DOMAIN table \cup {t.id} |->
                                    IF i = t.id THEN t ELSE table[i]] ]

newTransaction(nextID, isolation, table) ==
    LET t == [ id         |-> nextID,
               isolation  |-> isolation,
               state      |-> InProgressTransaction,
               inProgress |-> inProgress(table),
               writeset   |-> {},
               readset    |-> {} ]
    IN  [ t                 |-> t,
          nextTransactionID |-> nextID + 1,
          transactions      |-> [i \in DOMAIN table \cup {t.id} |->
                                    IF i = t.id THEN t ELSE table[i]] ]

\* ------------------------------------------- Database.completeTransaction
\* t.state = state; d.transactions.Set(t.id, *t): the connection's copy,
\* read and write sets included, replaces the table's entry.
completeTransactionKeepsState(t, state, table) ==
    [i \in DOMAIN table \cup {t.id} |-> IF i = t.id THEN t ELSE table[i]]

completeTransaction(t, state, table) ==
    [i \in DOMAIN table \cup {t.id} |->
        IF i = t.id THEN [t EXCEPT !.state = state] ELSE table[i]]

\* ---------------------------------------- Database.assertValidTransaction
\* TRUE when neither assert fires. A nil c.tx panics on t.id.
assertValidTransaction(t, table) ==
    /\ t # NoTx
    /\ t.id > 0
    /\ t.id \in DOMAIN table
    /\ table[t.id].state = InProgressTransaction

\* ------------------------------------------------------ Database.isVisible
\* main.go calls d.isVisible(t, value) and does not define it ("TODO:
\* isvisibile needs to be implemented"); it is taken from the design,
\* section 4.3 (creatorVisible / versionVisible).
creatorVisible(t, originId, table) ==
    IF originId = t.id THEN TRUE
    ELSE
        LET origin == table[originId] IN
        CASE origin.state = AbortedTransaction -> FALSE
          [] origin.state = InProgressTransaction ->
                t.isolation = ReadUncommittedIsolation
          [] origin.state = CommittedTransaction ->
                IF t.isolation \in {ReadUncommittedIsolation, ReadCommittedIsolation}
                THEN TRUE
                ELSE originId \notin t.inProgress

isVisible(t, value, table) ==
    IF ~creatorVisible(t, value.txStartID, table) THEN FALSE
    ELSE IF value.txEndID = 0 THEN TRUE
    ELSE IF value.txEndID = t.id THEN FALSE
    ELSE ~creatorVisible(t, value.txEndID, table)


\* ---------------------------------------------- execCommand: the get loop
\* for i := len(c.db.store[key]) - 1; i > 0; i-- { if isVisible ... return }
\* Go's index i is position i + 1 here, so the loop stops above position 1.
\* The position of the version returned, or 0 when the loop runs out.
RECURSIVE getLoopFrom(_, _, _, _)
getLoopFrom(t, versions, table, j) ==
    IF j <= 1 THEN 0
    ELSE IF isVisible(t, versions[j], table) THEN j
    ELSE getLoopFrom(t, versions, table, j - 1)

getLoopNoVisibilityCheck(t, versions, table) ==
    IF Len(versions) > 1 THEN Len(versions) ELSE 0

getLoop(t, versions, table) ==
    getLoopFrom(t, versions, table, Len(versions))

\* --------------------------------------- execCommand: the set/delete loop
\* for i := len(c.db.store[key]) - 1; i >= 0; i-- {
\*     if isVisible(c.tx, *value) { value.txEndID = c.tx.id; found = true } }
closeLoop(t, versions, table) ==
    [j \in 1 .. Len(versions) |->
        IF isVisible(t, versions[j], table)
        THEN [versions[j] EXCEPT !.txEndID = t.id]
        ELSE versions[j]]

closeLoopFoundSkipsOldest(t, versions, table) ==
    \E j \in 2 .. Len(versions) : isVisible(t, versions[j], table)

closeLoopFound(t, versions, table) ==
    \E j \in 1 .. Len(versions) : isVisible(t, versions[j], table)

\* ------------------------------------------------- what a command returns
\* execCommand's (string, error), with the command it answers.
Result(c, cmd, key, out, err) ==
    [conn |-> c, cmd |-> cmd, key |-> key, out |-> out, err |-> err]

\* A failed assert (or c.tx == nil dereferenced): the command never returns,
\* so the last result stays the one of the command before.
Panic ==
    /\ panicked' = TRUE
    /\ UNCHANGED res

\* --------------------------------------------------------------------- Init
Init ==
    /\ defaultIsolation = newDatabase.defaultIsolation
    /\ store = newDatabase.store
    /\ transactions = newDatabase.transactions
    /\ nextTransactionID = newDatabase.nextTransactionID
    /\ tx = [c \in Conns |-> NoTx]
    /\ panicked = FALSE
    /\ res = Result("none", "none", NoVal, NoVal, "nil")
    /\ obs = [c \in Conns |-> [k \in Keys |-> {}]]

\* ------------------------------------------------- Database.defaultIsolation
\* The field every new transaction takes its level from. The embedding
\* program configures it once, after newDatabase and before the first begin.
SetDefaultIsolation(level) ==
    /\ ~panicked
    /\ DOMAIN transactions = {}
    /\ level # defaultIsolation
    /\ defaultIsolation' = level
    /\ UNCHANGED <<store, transactions, nextTransactionID, tx, panicked, res, obs>>

\* ------------------------------------------------------ execCommand: begin
Begin(c) ==
    /\ ~panicked
    /\ nextTransactionID <= MaxTx
    /\ tx[c] = NoTx
    /\ LET n == newTransaction(nextTransactionID, defaultIsolation, transactions) IN
       /\ transactions' = n.transactions
       /\ nextTransactionID' = n.nextTransactionID
       /\ tx' = [tx EXCEPT ![c] = n.t]
       /\ IF assertValidTransaction(n.t, n.transactions)
          THEN /\ res' = Result(c, "begin", NoVal, ToString(n.t.id), "nil")
               /\ UNCHANGED panicked
          ELSE Panic
    /\ UNCHANGED <<defaultIsolation, store, obs>>

\* --------------------------------------------- execCommand: abort, commit
Complete(c, cmd, state) ==
    /\ ~panicked
    /\ assertValidTransaction(tx[c], transactions)
    /\ transactions' = completeTransaction(tx[c], state, transactions)
    /\ tx' = [tx EXCEPT ![c] = NoTx]
    /\ res' = Result(c, cmd, NoVal, NoVal, "nil")
    /\ obs' = [obs EXCEPT ![c] = [k \in Keys |-> {}]]
    /\ UNCHANGED <<defaultIsolation, store, nextTransactionID, panicked>>

Abort(c) == Complete(c, "abort", AbortedTransaction)

CommitStoresAborted(c) == Complete(c, "commit", AbortedTransaction)

Commit(c) == Complete(c, "commit", CommittedTransaction)

\* -------------------------------------------------------- execCommand: get
\* The loop returns the first visible version's value; when it runs out the
\* command falls through set/delete to the function's last line.
getResultReturnsNewest(c, t, key, versions, table) ==
    LET j == getLoop(t, versions, table) IN
    IF j > 0
    THEN Result(c, "get", key, versions[Len(versions)].value, "nil")
    ELSE Result(c, "get", key, NoVal, "command unimplemented")

getResult(c, t, key, versions, table) ==
    LET j == getLoop(t, versions, table) IN
    IF j > 0
    THEN Result(c, "get", key, versions[j].value, "nil")
    ELSE Result(c, "get", key, NoVal, "command unimplemented")

Get(c, key) ==
    /\ ~panicked
    /\ assertValidTransaction(tx[c], transactions)
    /\ tx' = [tx EXCEPT ![c].readset = @ \cup {key}]
    /\ res' = getResult(c, tx[c], key, store[key], transactions)
    /\ obs' = [obs EXCEPT ![c][key] =
                  IF @ = {} /\ tx[c].isolation = SerializableIsolation
                  THEN {Len(store[key])} ELSE @]
    /\ UNCHANGED <<db, panicked>>

\* ------------------------------------------------------- execCommand: set
SetPrepends(c, key, value) ==
    /\ ~panicked
    /\ Len(store[key]) < MaxVersions
    /\ assertValidTransaction(tx[c], transactions)
    /\ store' = [store EXCEPT ![key] =
                    <<[txStartID |-> tx[c].id, txEndID |-> 0, value |-> value]>>
                        \o closeLoop(tx[c], @, transactions)]
    /\ tx' = [tx EXCEPT ![c].writeset = @ \cup {key}]
    /\ res' = Result(c, "set", key, value, "nil")
    /\ UNCHANGED <<defaultIsolation, transactions, nextTransactionID, panicked, obs>>

Set(c, key, value) ==
    /\ ~panicked
    /\ Len(store[key]) < MaxVersions
    /\ assertValidTransaction(tx[c], transactions)
    /\ store' = [store EXCEPT ![key] =
                    Append(closeLoop(tx[c], @, transactions),
                           [ txStartID |-> tx[c].id,
                             \* end ID 0: no transaction has overwritten it yet
                             txEndID   |-> 0,
                             value     |-> value ])]
    /\ tx' = [tx EXCEPT ![c].writeset = @ \cup {key}]
    /\ res' = Result(c, "set", key, value, "nil")
    /\ UNCHANGED <<defaultIsolation, transactions, nextTransactionID, panicked, obs>>

\* ---------------------------------------------------- execCommand: delete
DeleteRemoves(c, key) ==
    /\ ~panicked
    /\ assertValidTransaction(tx[c], transactions)
    /\ store' = [store EXCEPT ![key] =
                    SelectSeq(@, LAMBDA v : ~isVisible(tx[c], v, transactions))]
    /\ IF ~closeLoopFound(tx[c], store[key], transactions)
       THEN /\ res' = Result(c, "delete", key, NoVal, "delete failed")
            /\ UNCHANGED tx
       ELSE /\ res' = Result(c, "delete", key, NoVal, "nil")
            /\ tx' = [tx EXCEPT ![c].writeset = @ \cup {key}]
    /\ UNCHANGED <<defaultIsolation, transactions, nextTransactionID, panicked, obs>>

Delete(c, key) ==
    /\ ~panicked
    /\ assertValidTransaction(tx[c], transactions)
    /\ store' = [store EXCEPT ![key] = closeLoop(tx[c], @, transactions)]
    /\ IF ~closeLoopFound(tx[c], store[key], transactions)
       THEN /\ res' = Result(c, "delete", key, NoVal, "delete failed")
            /\ UNCHANGED tx
       ELSE /\ res' = Result(c, "delete", key, NoVal, "nil")
            /\ tx' = [tx EXCEPT ![c].writeset = @ \cup {key}]
    /\ UNCHANGED <<defaultIsolation, transactions, nextTransactionID, panicked, obs>>

\* ------------------------------------------- execCommand: the failed asserts
BeginWithoutAssert(c) ==
    /\ ~panicked
    /\ nextTransactionID <= MaxTx
    /\ tx[c] # NoTx
    /\ LET n == newTransaction(nextTransactionID, defaultIsolation, transactions) IN
       /\ transactions' = n.transactions
       /\ nextTransactionID' = n.nextTransactionID
       /\ tx' = [tx EXCEPT ![c] = n.t]
       /\ res' = Result(c, "begin", NoVal, ToString(n.t.id), "nil")
    /\ UNCHANGED <<defaultIsolation, store, obs, panicked>>

\* begin with a transaction open: assertEq(c.tx, nil, ...) panics.
BeginPanic(c) ==
    /\ ~panicked
    /\ tx[c] # NoTx
    /\ Panic
    /\ UNCHANGED <<db, tx, obs>>

\* abort, commit, get, set, delete with none open: assertValidTransaction
\* panics before the command touches anything.
CommandPanic(c) ==
    /\ ~panicked
    /\ ~assertValidTransaction(tx[c], transactions)
    /\ Panic
    /\ UNCHANGED <<db, tx, obs>>

\* The value of the next set of a key: one not written to the key before, so
\* that a value read names the version it came from.
NewValue(key) == ToString(Len(store[key]) + 1)

\* The commands of callers that keep the session protocol.
Commands ==
    \/ \E c \in Conns : Begin(c)
    \/ \E c \in Conns : Abort(c)
    \/ \E c \in Conns : Commit(c)
    \/ \E c \in Conns, key \in Keys : Get(c, key)
    \/ \E c \in Conns, key \in Keys : Set(c, key, NewValue(key))
    \/ \E c \in Conns, key \in Keys : Delete(c, key)

Next ==
    \/ \E level \in IsolationLevels : SetDefaultIsolation(level)
    \/ Commands

Misuse ==
    \/ \E c \in Conns : BeginPanic(c)
    \/ \E c \in Conns : CommandPanic(c)

Spec == Init /\ [][Next]_vars

\* The database at the level newDatabase gives it, with callers that also
\* break the session protocol (the asserts do not read the level).
SpecMisuse == Init /\ [][Commands \/ Misuse]_vars

\* =================================================================== claims
\* Helpers of the statements below.
Positions(key) == 1 .. Len(store[key])

Newest(S) == CHOOSE j \in S : \A i \in S : i <= j

\* The version a get's value came from: NewValue gives every version of a
\* key its own value.
PositionOf(key, value) ==
    CHOOSE j \in Positions(key) : store[key][j].value = value

\* The last command was a get that returned; its transaction is still open.
GetReturned == res.cmd = "get" /\ tx[res.conn] # NoTx

\* The positions of the versions of key that transaction id created (its sets).
VersionsBy(id, key) ==
    {j \in Positions(key) : store[key][j].txStartID = id}

\* Transaction id closed a version of key, and every version it created is
\* closed by itself: the last of its writes of key is a delete that succeeded.
LastWriteIsDelete(id, key) ==
    /\ \E j \in Positions(key) : store[key][j].txEndID = id
    /\ \A j \in Positions(key) :
          store[key][j].txStartID = id => store[key][j].txEndID = id

\* The step is connection c's commit of its open transaction.
CommitStep(c) ==
    /\ tx[c] # NoTx
    /\ tx'[c] = NoTx
    /\ res'.cmd = "commit"
    /\ res'.conn = c

\* The commit of c's transaction failed as a serialization failure.
SerializationFailure(c) ==
    /\ res'.err = "SerializationFailure"
    /\ transactions'[tx[c].id].state = AbortedTransaction

\* C1: read-your-own-writes. A get by a transaction whose last write of the
\* key is a set(k, v) that nothing has closed since returns v, at every
\* isolation level, also when that set created the key's first version.
C1_ReadYourOwnWrites ==
    GetReturned =>
        LET t == tx[res.conn]
            own == VersionsBy(t.id, res.key)
        IN  (own # {} /\ store[res.key][Newest(own)].txEndID = 0) =>
                /\ res.err = "nil"
                /\ res.out = store[res.key][Newest(own)].value

\* C2: repeatable reads. For a transaction at RepeatableRead or stricter,
\* what get(k) returns is not changed by any step other than its own set or
\* delete of k: two gets of k with no own write between them agree.
C2_RepeatableReads ==
    [][\A c \in Conns, k \in Keys :
          ( /\ tx[c] # NoTx
            /\ tx'[c] # NoTx
            /\ tx'[c].id = tx[c].id
            /\ tx[c].isolation >= RepeatableReadIsolation
            /\ ~(res'.conn = c /\ res'.key = k /\ res'.cmd \in {"set", "delete"}) )
          => getResult(c, tx'[c], k, store'[k], transactions')
               = getResult(c, tx[c], k, store[k], transactions)]_vars

\* C3: first-committer-wins. When a Snapshot transaction commits after a
\* Snapshot transaction that was in progress at the same time, set the same
\* key and has already committed, its commit is a SerializationFailure.
C3_FirstCommitterWins ==
    [][\A c \in Conns :
          ( /\ CommitStep(c)
            /\ tx[c].isolation = SnapshotIsolation
            /\ \E u \in DOMAIN transactions, k \in Keys :
                  /\ u # tx[c].id
                  /\ transactions[u].state = CommittedTransaction
                  /\ transactions[u].isolation = SnapshotIsolation
                  /\ u \in tx[c].inProgress \/ tx[c].id \in transactions[u].inProgress
                  /\ VersionsBy(u, k) # {}
                  /\ VersionsBy(tx[c].id, k) # {} )
          => SerializationFailure(c)]_vars

\* C4: write-skew prevention. When a Serializable transaction A commits after
\* it read key K and another transaction then set K and committed, A's
\* commit is a SerializationFailure although A never wrote K.
C4_WriteSkewPrevented ==
    [][\A c \in Conns :
          ( /\ CommitStep(c)
            /\ tx[c].isolation = SerializableIsolation
            /\ \E k \in Keys :
                  /\ k \notin tx[c].writeset
                  /\ \E n \in obs[c][k], j \in Positions(k) :
                        /\ j > n
                        /\ store[k][j].txStartID # tx[c].id
                        /\ transactions[store[k][j].txStartID].state
                             = CommittedTransaction )
          => SerializationFailure(c)]_vars

\* The version the last get returned, and the transaction that created it.
Returned == store[res.key][PositionOf(res.key, res.out)]

GetFound == GetReturned /\ res.err = "nil"

\* C5: aborted writes are invisible. No get by another transaction returns a
\* value an Aborted transaction wrote, and to every open transaction a version
\* closed by an Aborted transaction is as visible as if it had no closer.
C5_AbortedWritesInvisible ==
    /\ GetFound =>
          \/ Returned.txStartID = tx[res.conn].id
          \/ transactions[Returned.txStartID].state # AbortedTransaction
    /\ \A c \in Conns, k \in Keys : \A j \in Positions(k) :
          ( /\ tx[c] # NoTx
            /\ store[k][j].txEndID # 0
            /\ transactions[store[k][j].txEndID].state = AbortedTransaction )
          => isVisible(tx[c], store[k][j], transactions)
               = isVisible(tx[c], [store[k][j] EXCEPT !.txEndID = 0], transactions)

\* A get returned a version that an Aborted transaction had closed, passing
\* over a newer version that the Aborted transaction wrote.
C5_Witness ==
    /\ GetFound
    /\ Returned.txEndID # 0
    /\ transactions[Returned.txEndID].state = AbortedTransaction
    /\ \E j \in Positions(res.key) :
          /\ j > PositionOf(res.key, res.out)
          /\ store[res.key][j].txStartID = Returned.txEndID

\* C6: no dirty reads above ReadUncommitted. A get that returns a value
\* written by another transaction that is still InProgress is a get of a
\* ReadUncommitted transaction.
C6_NoDirtyReads ==
    ( /\ GetFound
      /\ Returned.txStartID # tx[res.conn].id
      /\ transactions[Returned.txStartID].state = InProgressTransaction )
    => tx[res.conn].isolation = ReadUncommittedIsolation

\* A transaction at ReadCommitted or stricter got a key whose newest version
\* another, still InProgress, transaction wrote, and was given an older one.
C6_Witness ==
    /\ GetFound
    /\ tx[res.conn].isolation >= ReadCommittedIsolation
    /\ PositionOf(res.key, res.out) < Len(store[res.key])
    /\ LET newest == store[res.key][Len(store[res.key])] IN
          /\ newest.txStartID # tx[res.conn].id
          /\ transactions[newest.txStartID].state = InProgressTransaction

\* C7: delete round-trip. A get of k returns NotFound (no value, no error)
\* when the getting transaction's last write of k is a delete that succeeded,
\* and when a transaction whose last write of k is such a delete committed
\* before the getting transaction began and no later transaction has set k.
C7_DeleteRoundTrip ==
    ( /\ GetReturned
      /\ \/ LastWriteIsDelete(tx[res.conn].id, res.key)
         \/ \E d \in DOMAIN transactions :
               /\ transactions[d].state = CommittedTransaction
               /\ LastWriteIsDelete(d, res.key)
               /\ d < tx[res.conn].id
               /\ d \notin tx[res.conn].inProgress
               /\ \A j \in Positions(res.key) : store[res.key][j].txStartID <= d )
    => (res.out = NoVal /\ res.err = "nil")

\* C8: the result of get. A get returns the value of the newest version of
\* the key that is visible to its transaction, the oldest version included,
\* and returns no value and no error when none is visible.
C8_GetReturnsNewestVisible ==
    GetReturned =>
        LET t == tx[res.conn]
            visible == {j \in Positions(res.key) :
                           isVisible(t, store[res.key][j], transactions)}
        IN  /\ res.err = "nil"
            /\ res.out = IF visible = {} THEN NoVal
                         ELSE store[res.key][Newest(visible)].value

\* C9: transaction ids are unique and dense in begin order. The ids in the
\* table are exactly 1 .. n after n begins, each entry under its own id; a
\* begin returns the newest of them as its result; 0 is never assigned and no
\* two connections hold the same id.
C9_TransactionIdsDense ==
    /\ DOMAIN transactions = 1 .. (nextTransactionID - 1)
    /\ \A id \in DOMAIN transactions : transactions[id].id = id
    /\ \A c \in Conns : tx[c] # NoTx => tx[c].id \in DOMAIN transactions
    /\ \A c, d \in Conns : (c # d /\ tx[c] # NoTx /\ tx[d] # NoTx) => tx[c].id # tx[d].id
    /\ res.cmd = "begin" =>
          /\ tx[res.conn].id = nextTransactionID - 1
          /\ res.out = ToString(nextTransactionID - 1)

\* The third begin, on a connection whose earlier transaction was aborted,
\* returned "3".
C9_Witness ==
    /\ res.cmd = "begin"
    /\ res.out = "3"
    /\ \E id \in DOMAIN transactions : transactions[id].state = AbortedTransaction
    /\ \E id \in DOMAIN transactions : transactions[id].state = CommittedTransaction

\* C10: transaction lifecycle. No step removes a transaction from the table
\* or changes the state of a Committed or Aborted one, and a transaction that
\* is InProgress after a step and was not before it was created by a begin.
C10_Lifecycle ==
    [][/\ \A id \in DOMAIN transactions :
             /\ id \in DOMAIN transactions'
             /\ transactions[id].state # InProgressTransaction
                   => transactions'[id].state = transactions[id].state
       /\ \A id \in DOMAIN transactions' :
             ( /\ transactions'[id].state = InProgressTransaction
               /\ id \notin DOMAIN transactions
                    \/ transactions[id].state # InProgressTransaction )
             => (id \notin DOMAIN transactions /\ res'.cmd = "begin")
       /\ \A id \in DOMAIN transactions' \ DOMAIN transactions :
             transactions'[id].state = InProgressTransaction]_vars

\* A begin ran while the table held a Committed and an Aborted transaction.
C10_Witness ==
    /\ res.cmd = "begin"
    /\ tx[res.conn] # NoTx
    /\ \E id \in DOMAIN transactions : transactions[id].state = AbortedTransaction
    /\ \E id \in DOMAIN transactions : transactions[id].state = CommittedTransaction
    /\ \E c \in Conns : c # res.conn /\ tx[c] = NoTx

\* The transactions the connections hold open.
Held == {tx[c].id : c \in {d \in Conns : tx[d] # NoTx}}

VisibleTo(c, key) ==
    \E j \in Positions(key) : isVisible(tx[c], store[key][j], transactions)

\* C12: delete(k) fails with "key not found" exactly when no version of k is
\* visible to its transaction; the failed delete stamps and appends nothing,
\* leaves the write set as it was and the transaction InProgress on its
\* connection.
C12_DeleteKeyNotFound ==
    [][\A c \in Conns, k \in Keys :
          (res'.cmd = "delete" /\ res'.conn = c /\ res'.key = k) =>
              /\ res'.err = "delete failed" <=> ~VisibleTo(c, k)
              /\ res'.err = "nil" <=> VisibleTo(c, k)
              /\ ~VisibleTo(c, k) =>
                    /\ UNCHANGED <<store, tx, transactions, nextTransactionID>>
                    /\ assertValidTransaction(tx'[c], transactions')]_vars

\* A delete failed on a key that has versions, none of them visible to the
\* deleting transaction, which stays open without the key in its write set.
C12_Witness ==
    /\ res.cmd = "delete"
    /\ res.err = "delete failed"
    /\ Len(store[res.key]) > 0
    /\ tx[res.conn] # NoTx
    /\ res.key \notin tx[res.conn].writeset
    /\ transactions[tx[res.conn].id].state = InProgressTransaction

\* C13: non-repeatable reads at ReadCommitted. When a transaction commits
\* whose set of k is the newest version of k, a ReadCommitted transaction that
\* is open on another connection and has not written k gets another result
\* for k before the commit and the newly committed value after it.
C13_NonRepeatableRead ==
    [][\A c, d \in Conns, k \in Keys :
          ( /\ c # d
            /\ CommitStep(d)
            /\ tx[c] # NoTx
            /\ tx[c].isolation = ReadCommittedIsolation
            /\ k \notin tx[c].writeset
            /\ Len(store[k]) > 1
            /\ store[k][Len(store[k])].txStartID = tx[d].id
            /\ store[k][Len(store[k])].txEndID = 0 )
          => /\ getResult(c, tx[c], k, store[k], transactions).out
                  # store[k][Len(store[k])].value
             /\ getResult(c, tx'[c], k, store'[k], transactions')
                  = Result(c, "get", k, store[k][Len(store[k])].value, "nil")]_vars

\* A ReadCommitted transaction that has not written the key got the value of
\* a transaction that was InProgress when it began and has committed since.
C13_Witness ==
    /\ GetFound
    /\ tx[res.conn].isolation = ReadCommittedIsolation
    /\ res.key \notin tx[res.conn].writeset
    /\ Returned.txStartID \in tx[res.conn].inProgress
    /\ transactions[Returned.txStartID].state = CommittedTransaction

\* C14: commit never fails on conflict. Every commit of an open transaction
\* at ReadUncommitted, ReadCommitted or RepeatableRead returns no error and
\* records the transaction as Committed, whatever the table and the store
\* hold; so does the commit of a Snapshot transaction that only read.
C14_CommitBelowSnapshotSucceeds ==
    [][\A c \in Conns :
          ( /\ CommitStep(c)
            /\ \/ tx[c].isolation \in {ReadUncommittedIsolation,
                                       ReadCommittedIsolation,
                                       RepeatableReadIsolation}
               \/ /\ tx[c].isolation = SnapshotIsolation
                  /\ tx[c].writeset = {}
                  /\ tx[c].readset # {} )
          => /\ res'.err = "nil"
             /\ transactions'[tx[c].id].state = CommittedTransaction
             /\ \A id \in DOMAIN transactions \ {tx[c].id} :
                   transactions'[id] = transactions[id]]_vars

\* Two concurrent transactions below Snapshot wrote the same key and both
\* are Committed.
C14_Witness ==
    /\ res.cmd = "commit"
    /\ res.err = "nil"
    /\ \E a, b \in DOMAIN transactions, k \in Keys :
          /\ a \in transactions[b].inProgress
          /\ transactions[a].state = CommittedTransaction
          /\ transactions[b].state = CommittedTransaction
          /\ transactions[b].isolation < SnapshotIsolation
          /\ k \in transactions[a].writeset
          /\ k \in transactions[b].writeset

\* C15: closerTxId is write-once. A txEndID that is not 0 is never changed
\* by any step.
C15_CloserWriteOnce ==
    [][\A k \in Keys : \A j \in Positions(k) :
          store[k][j].txEndID # 0
          => /\ j <= Len(store'[k])
             /\ store'[k][j].txEndID = store[k][j].txEndID]_vars

\* The transaction a begin would create in the current state.
FreshTx == newTransaction(nextTransactionID, defaultIsolation, transactions).t

\* C16: a committed close is durable. A version whose txEndID names a
\* Committed transaction and which is not visible to a transaction beginning
\* now is, after any step, still not visible to a transaction beginning then.
C16_CommittedCloseDurable ==
    [][\A k \in Keys : \A j \in Positions(k) :
          ( /\ store[k][j].txEndID # 0
            /\ transactions[store[k][j].txEndID].state = CommittedTransaction
            /\ ~isVisible(FreshTx, store[k][j], transactions) )
          => /\ j <= Len(store'[k])
             /\ ~isVisible(FreshTx', store'[k][j], transactions')]_vars

\* C17: write-write check at commit. The commit of a Snapshot or Serializable
\* transaction T is a SerializationFailure, and T is recorded as Aborted,
\* when a key of T's writeset has a version created by another, Committed
\* transaction whose id is greater than T's.
C17_WriteWriteCheck ==
    [][\A c \in Conns :
          ( /\ CommitStep(c)
            /\ tx[c].isolation \in {SnapshotIsolation, SerializableIsolation}
            /\ \E k \in tx[c].writeset : \E j \in Positions(k) :
                  /\ store[k][j].txStartID > tx[c].id
                  /\ transactions[store[k][j].txStartID].state
                        = CommittedTransaction )
          => SerializationFailure(c)]_vars

\* C18: snapshot capture at begin. The inProgress set of a transaction begun
\* at RepeatableRead or stricter is exactly the set of ids whose table entry
\* was InProgress before the begin, does not hold its own id, is the one the
\* table entry records, and no later step changes it.
C18_SnapshotCapturedAtBegin ==
    [][/\ \A c \in Conns :
             /\ ( /\ tx[c] = NoTx
                  /\ tx'[c] # NoTx
                  /\ tx'[c].isolation >= RepeatableReadIsolation )
                => /\ tx'[c].inProgress
                        = {id \in DOMAIN transactions :
                              transactions[id].state = InProgressTransaction}
                   /\ tx'[c].id \notin tx'[c].inProgress
                   /\ tx'[c].id \notin DOMAIN transactions
                   /\ transactions'[tx'[c].id].inProgress = tx'[c].inProgress
             /\ ( /\ tx[c] # NoTx
                  /\ tx'[c] # NoTx
                  /\ tx[c].isolation >= RepeatableReadIsolation )
                => /\ tx'[c].id = tx[c].id
                   /\ tx'[c].inProgress = tx[c].inProgress
       /\ \A id \in DOMAIN transactions :
             transactions[id].isolation >= RepeatableReadIsolation
             => transactions'[id].inProgress = transactions[id].inProgress]_vars

\* An open transaction at RepeatableRead or stricter still holds in its
\* snapshot a transaction that has committed, and a transaction has begun
\* after it.
C18_Witness ==
    \E c \in Conns :
       /\ tx[c] # NoTx
       /\ tx[c].isolation >= RepeatableReadIsolation
       /\ \E id \in tx[c].inProgress :
             transactions[id].state = CommittedTransaction
       /\ \E id \in DOMAIN transactions : id > tx[c].id

\* C19 as stated: the versions of every key are in ascending txStartID
\* order.
C19_AscendingCreatorOrder ==
    \A k \in Keys : \A i, j \in Positions(k) :
       i < j => store[k][i].txStartID <= store[k][j].txStartID

\* C19: per-key version order is the order of the sets. A version stored
\* after another has a smaller txStartID only if its creator was InProgress
\* when the other's creator began.
C19_OrderOfSets ==
    \A k \in Keys : \A i, j \in Positions(k) :
       (i < j /\ store[k][i].txStartID > store[k][j].txStartID)
       => store[k][j].txStartID
             \in transactions[store[k][i].txStartID].inProgress

\* Two versions of a key whose txStartIDs descend.
C19_Witness ==
    \E k \in Keys : \E i, j \in Positions(k) :
       /\ i < j
       /\ store[k][i].txStartID > store[k][j].txStartID

\* C20: the store is append-only. No step shortens a key's versions or
\* changes the txStartID or value at a position; a set leaves one more
\* version, the last, with the setter's id, txEndID 0 and the value set; a
\* delete leaves as many; every other step leaves the whole store as it was.
C20_AppendOnly ==
    [][\A k \in Keys :
          /\ Len(store'[k]) >= Len(store[k])
          /\ \A j \in Positions(k) :
                /\ store'[k][j].txStartID = store[k][j].txStartID
                /\ store'[k][j].value = store[k][j].value
          /\ (res'.cmd = "set" /\ res'.key = k)
             => /\ Len(store'[k]) = Len(store[k]) + 1
                /\ store'[k][Len(store'[k])]
                     = [ txStartID |-> tx[res'.conn].id,
                         txEndID   |-> 0,
                         value     |-> res'.out ]
          /\ (res'.cmd = "delete" \/ res'.key # k)
             => Len(store'[k]) = Len(store[k])
          /\ res'.cmd \notin {"set", "delete"}
             => store'[k] = store[k]]_vars

\* A delete has closed a version of a key that has several, and a set has
\* closed another.
C20_Witness ==
    /\ res.cmd = "delete"
    /\ res.err = "nil"
    /\ Len(store[res.key]) = MaxVersions
    /\ \E j \in Positions(res.key) :
          store[res.key][j].txEndID = tx[res.conn].id
    /\ \E j \in Positions(res.key) :
          store[res.key][j].txEndID \notin {0, tx[res.conn].id}

=============================================================================
